---- MODULE Spec2Model ----
(***************************************************************************)
(* Access control of pie.acl: the memoized level resolver                  *)
(* map_member_to_ACLevel and the decision chain acl2_function.             *)
(*                                                                         *)
(* Three specifications share the variables:                               *)
(*   Spec         acl2_function for one member of one guild and in the DM  *)
(*                context, the owner sets and the member's roles changing  *)
(*                between calls;                                           *)
(*   SpecResolve  map_member_to_ACLevel for one member under every         *)
(*                configuration of owners, roles and mappings;             *)
(*   SpecCache    map_member_to_ACLevel for several members and guilds     *)
(*                over time.                                               *)
(***************************************************************************)
EXTENDS Integers, Sequences, FiniteSets

VARIABLES
    now,              \* wall clock read by the cache
    owner_ids,        \* bot.owner_ids
    guild_owner_id,   \* guild -> member.guild.owner.id
    member_roles,     \* member -> member.roles
    level_mapping,    \* (guild, role) -> ACLevelMappping row level, or None
    lru,              \* storage of @ring.lru: key -> entry or NoEntry
    key_guild,        \* whether the key of a member tells its guilds apart
    ret,              \* what the step just taken returned, or NoCall
    mark              \* an earlier resolver call kept for comparison, or NoMark

vars == <<now, owner_ids, guild_owner_id, member_roles, level_mapping, lru, key_guild,
          ret, mark>>

----------------------------------------------------------------------------
\* Bounds of the model.

\* The clock advances in steps of TickStep time units.
TickStep == 5
\* The clock stops at MaxTime.
MaxTime == 10

----------------------------------------------------------------------------
\* ACLevel: the ordered enumeration of levels.

EVERYONE == 0
VIP == 1
MOD == 2
GUILD_OWNER == 3
BOT_OWNER == 4

ACLevel == {EVERYONE, VIP, MOD, GUILD_OWNER, BOT_OWNER}

\* The levels a role can be mapped to.
AssignableLevels == {EVERYONE, VIP, MOD}

\* None where a lookup finds no row with a level.
None == -1

Users == {"u1", "u2"}
Guilds == {"g1", "g2"}
Roles == {"r1", "r2", "r3"}
Channels == {"c1"}

\* discord.Member: a user in one guild.
Member(u, g) == [id |-> u, guild |-> g]
Members == {Member(u, g) : u \in Users, g \in Guilds}
NoMember == [id |-> "none", guild |-> "none"]

\* No step has returned a value.
NoCall == [op |-> "none"]
\* No earlier call is kept.
NoMark == [member |-> NoMember, value |-> None, at |-> -1, computed_at |-> -1]

\* member.roles: the lists of distinct roles out of a set.
RoleLists(roles) ==
    {<<>>} \cup {<<r>> : r \in roles}
           \cup {p \in roles \X roles : p[1] # p[2]}
           \cup {p \in roles \X roles \X roles : p[1] # p[2] /\ p[1] # p[3] /\ p[2] # p[3]}

----------------------------------------------------------------------------
\* map_member_to_ACLevel, the undecorated body.

\* The scan in list order instead of reversed.
RECURSIVE scan_mapping_forward(_, _, _)
scan_mapping_forward(roles, i, guild) ==
    IF i = 0 THEN EVERYONE
    ELSE IF level_mapping[<<guild, roles[Len(roles) - i + 1]>>] # None
         THEN level_mapping[<<guild, roles[Len(roles) - i + 1]>>]
         ELSE scan_mapping_forward(roles, i - 1, guild)

\* for role in member.roles[::-1]: the first role with a mapping decides.
RECURSIVE scan_mapping(_, _, _)
scan_mapping(roles, i, guild) ==
    IF i = 0 THEN EVERYONE
    ELSE IF level_mapping[<<guild, roles[i]>>] # None
         THEN level_mapping[<<guild, roles[i]>>]
         ELSE scan_mapping(roles, i - 1, guild)

\* Guild ownership tested before bot ownership.
compute_member_level_guild_first(member) ==
    IF member.id = guild_owner_id[member.guild] THEN GUILD_OWNER
    ELSE IF member.id \in owner_ids THEN BOT_OWNER
    ELSE scan_mapping(member_roles[member], Len(member_roles[member]), member.guild)

compute_member_level(member) ==
    LET is_bot_owner == member.id \in owner_ids
        is_guild_owner == ~is_bot_owner /\ member.id = guild_owner_id[member.guild]
    IN  IF is_bot_owner THEN BOT_OWNER
        ELSE IF is_guild_owner THEN GUILD_OWNER
        ELSE scan_mapping(member_roles[member], Len(member_roles[member]), member.guild)

----------------------------------------------------------------------------
\* @ring.lru(expire=10)

expire == 10

\* The cache key of a call.  ring builds it from the keyword argument member
\* through the argument's own hash or string form; discord.Member defines
\* both outside this repository.  The member's user is always part of the
\* key; whether its guild is part of it is fixed when the program starts.
AnyGuild == "any"

ring_key(member) ==
    IF key_guild THEN <<member.id, member.guild>> ELSE <<member.id, AnyGuild>>

Keys == Users \X (Guilds \cup {AnyGuild})

\* The store holds more keys than the model has members: no entry is
\* displaced by another one.

\* A key without an entry.
NoEntry == [value |-> None, expire |-> -1, member |-> NoMember, at |-> -1]

\* The comparison with the expiry time inverted.
is_hit_inverted(member) ==
    /\ lru[ring_key(member)] # NoEntry
    /\ now >= lru[ring_key(member)].expire

\* An entry is served while its expiry time has not been reached.
is_hit(member) ==
    /\ lru[ring_key(member)] # NoEntry
    /\ now < lru[ring_key(member)].expire

\* The entry stored after a miss.  The fields member and at are history:
\* for whom and when the value was computed.
new_entry(member) ==
    [value |-> compute_member_level(member), expire |-> now + expire,
     member |-> member, at |-> now]

\* The entry a call is answered from.
served_entry(member) ==
    IF is_hit(member) THEN lru[ring_key(member)] ELSE new_entry(member)

\* The storage after the call.
lru_after(member) ==
    IF is_hit(member) THEN lru
    ELSE [lru EXCEPT ![ring_key(member)] = new_entry(member)]

\* The decorated function's return value.
map_member_to_ACLevel(member) == served_entry(member).value

----------------------------------------------------------------------------
\* Calls are synchronous: a call runs to its return without any other step in
\* between, and its value is handed to the caller before the next step.

idle == ret = NoCall

Return ==
    /\ ~idle
    /\ ret' = NoCall
    /\ UNCHANGED <<now, owner_ids, guild_owner_id, member_roles, level_mapping, lru, key_guild, mark>>

----------------------------------------------------------------------------
\* The resolver called directly.

ResolveRet(member) ==
    [op |-> "map_member_to_ACLevel", member |-> member,
     value |-> map_member_to_ACLevel(member), hit |-> is_hit(member),
     source |-> served_entry(member).member, computed_at |-> served_entry(member).at,
     at |-> now, mark |-> mark]

Resolve(member, remember) ==
    /\ idle
    /\ lru' = lru_after(member)
    /\ ret' = ResolveRet(member)
    /\ mark' = IF remember
               THEN [member |-> member, value |-> map_member_to_ACLevel(member),
                     at |-> now, computed_at |-> served_entry(member).at]
               ELSE mark
    /\ UNCHANGED <<now, owner_ids, guild_owner_id, member_roles, level_mapping, key_guild>>

----------------------------------------------------------------------------
\* The environment: time and the administrative surface.

Tick ==
    /\ idle
    /\ now + TickStep <= MaxTime
    /\ now' = now + TickStep
    /\ UNCHANGED <<owner_ids, guild_owner_id, member_roles, level_mapping, lru, key_guild, mark, ret>>

\* pumpkin.py:update_app_info() sets bot.owner_ids.
update_app_info(ids) ==
    /\ idle
    /\ ids # owner_ids
    /\ owner_ids' = ids
    /\ UNCHANGED <<now, guild_owner_id, member_roles, level_mapping, lru, key_guild, mark, ret>>

\* The guild changes its owner.
SetGuildOwner(guild, u) ==
    /\ idle
    /\ guild_owner_id[guild] # u
    /\ guild_owner_id' = [guild_owner_id EXCEPT ![guild] = u]
    /\ UNCHANGED <<now, owner_ids, member_roles, level_mapping, lru, key_guild, mark, ret>>

\* The member's roles change.
SetRoles(member, roles) ==
    /\ idle
    /\ member_roles[member] # roles
    /\ member_roles' = [member_roles EXCEPT ![member] = roles]
    /\ UNCHANGED <<now, owner_ids, guild_owner_id, level_mapping, lru, key_guild, mark, ret>>

\* A role-level mapping is added, changed or removed.
SetMapping(guild, role, level) ==
    /\ idle
    /\ level_mapping[<<guild, role>>] # level
    /\ level_mapping' = [level_mapping EXCEPT ![<<guild, role>>] = level]
    /\ UNCHANGED <<now, owner_ids, guild_owner_id, member_roles, lru, key_guild, mark, ret>>

----------------------------------------------------------------------------
\* acl2_function

\* ctx.guild of a context outside any guild.
NoGuild == "none"

\* An overwrite lookup finds no row, a row with allow=True or one with
\* allow=False.
Overwrites == {"none", "allow", "deny"}

\* The rows of the guild's tables for the command, as the lookups of one call
\* find them: ACDefault, UserOverwrite of the author, ChannelOverwrite of the
\* channel and RoleOverwrite of every role.
Rows(levels, roles) ==
    [default : levels \cup {None}, uo : Overwrites, co : Overwrites,
     ro : [roles -> Overwrites]]

NoRole == "none"
NoChannel == "none"

Allowed(seen) ==
    [kind |-> "Allowed", channel |-> NoChannel, role |-> NoRole,
     required |-> None, actual |-> None, consulted |-> seen]

Denied(kind, channel, role, required, actual, seen) ==
    [kind |-> kind, channel |-> channel, role |-> role,
     required |-> required, actual |-> actual, consulted |-> seen]

\* The ACDefault row ignored.
required_level_declared(level, db) == level

\* level = custom_level.level when ACDefault has a row.
required_level(level, db) == IF db.default # None THEN db.default ELSE level

\* The final comparison of levels.
level_check(member_level, required, seen) ==
    IF member_level >= required
    THEN Allowed(seen)
    ELSE Denied("InsufficientACLevel", NoChannel, NoRole, required, member_level, seen)

\* The roles scanned in reversed order.
RECURSIVE role_check_reversed(_, _, _, _, _, _)
role_check_reversed(roles, i, db, member_level, required, seen) ==
    IF i > Len(roles) THEN level_check(member_level, required, seen)
    ELSE LET role == roles[Len(roles) - i + 1]
             here == seen \cup {<<"RoleOverwrite", role>>}
         IN  IF db.ro[role] = "allow" THEN Allowed(here)
             ELSE IF db.ro[role] = "deny"
                  THEN Denied("NegativeRoleOverwrite", NoChannel, role, None, None, here)
                  ELSE role_check_reversed(roles, i + 1, db, member_level, required, here)

\* for role in ctx.author.roles: the first role with an overwrite decides.
RECURSIVE role_check(_, _, _, _, _, _)
role_check(roles, i, db, member_level, required, seen) ==
    IF i > Len(roles) THEN level_check(member_level, required, seen)
    ELSE LET here == seen \cup {<<"RoleOverwrite", roles[i]>>}
         IN  IF db.ro[roles[i]] = "allow" THEN Allowed(here)
             ELSE IF db.ro[roles[i]] = "deny"
                  THEN Denied("NegativeRoleOverwrite", NoChannel, roles[i], None, None, here)
                  ELSE role_check(roles, i + 1, db, member_level, required, here)

\* A channel overwrite that allows does not end the chain.
channel_check_allow_continues(roles, channel, db, member_level, required, seen) ==
    LET here == seen \cup {<<"ChannelOverwrite", channel>>}
    IN  IF db.co = "deny"
        THEN Denied("NegativeChannelOverwrite", channel, NoRole, None, None, here)
        ELSE role_check(roles, 1, db, member_level, required, here)

channel_check(roles, channel, db, member_level, required, seen) ==
    LET here == seen \cup {<<"ChannelOverwrite", channel>>}
    IN  IF db.co = "allow" THEN Allowed(here)
        ELSE IF db.co = "deny"
             THEN Denied("NegativeChannelOverwrite", channel, NoRole, None, None, here)
             ELSE role_check(roles, 1, db, member_level, required, here)

\* A user overwrite that denies does not end the chain.
user_check_deny_continues(roles, channel, db, member_level, required, seen) ==
    LET here == seen \cup {<<"UserOverwrite", "author">>}
    IN  IF db.uo = "allow" THEN Allowed(here)
        ELSE channel_check(roles, channel, db, member_level, required, here)

user_check(roles, channel, db, member_level, required, seen) ==
    LET here == seen \cup {<<"UserOverwrite", "author">>}
    IN  IF db.uo = "allow" THEN Allowed(here)
        ELSE IF db.uo = "deny"
             THEN Denied("NegativeUserOverwrite", NoChannel, NoRole, None, None, here)
             ELSE channel_check(roles, channel, db, member_level, required, here)

\* The chain without the bot owner's return.
guild_check_no_bypass(member_level, roles, channel, level, db) ==
    user_check(roles, channel, db, member_level, required_level(level, db),
               {<<"map_member_to_ACLevel", "author">>, <<"ACDefault", "command">>})

\* The chain after the level is resolved.
guild_check(member_level, roles, channel, level, db) ==
    LET seen == {<<"map_member_to_ACLevel", "author">>}
    IN  IF member_level = BOT_OWNER THEN Allowed(seen)
        ELSE user_check(roles, channel, db, member_level, required_level(level, db),
                        seen \cup {<<"ACDefault", "command">>})

\* Whether the call reaches the resolver.
in_guild(ctx) == ctx.guild # NoGuild

author(ctx) == Member(ctx.author, ctx.guild)

\* A context outside any guild checked as an EVERYONE member without roles.
acl2_function_dm_checked(ctx, level, db) ==
    IF ~in_guild(ctx) THEN guild_check(EVERYONE, <<>>, ctx.channel, level, db)
    ELSE guild_check(map_member_to_ACLevel(author(ctx)), member_roles[author(ctx)],
                     ctx.channel, level, db)

acl2_function(ctx, level, db) ==
    IF ~in_guild(ctx) THEN Allowed({})
    ELSE guild_check(map_member_to_ACLevel(author(ctx)), member_roles[author(ctx)],
                     ctx.channel, level, db)

\* The value returned with the inputs and what the resolver did.
EvaluateRet(ctx, level, db) ==
    [op |-> "acl2_function", ctx |-> ctx, level |-> level, db |-> db,
     member_level |-> IF in_guild(ctx) THEN map_member_to_ACLevel(author(ctx)) ELSE None,
     hit |-> in_guild(ctx) /\ is_hit(author(ctx)),
     result |-> acl2_function(ctx, level, db)]

Evaluate(ctx, level, db) ==
    /\ idle
    /\ lru' = IF in_guild(ctx) THEN lru_after(author(ctx)) ELSE lru
    /\ ret' = EvaluateRet(ctx, level, db)
    /\ UNCHANGED <<now, owner_ids, guild_owner_id, member_roles, level_mapping, key_guild,
                   mark>>

----------------------------------------------------------------------------
\* Spec: acl2_function for one user, whose level changes between calls.

\* The levels commands are declared with and defaults are set to.
EvalLevels == {EVERYONE, MOD, BOT_OWNER}
\* The roles the user can hold.
EvalRoles == {"r1", "r2"}

Contexts ==
    [guild : {"g1", NoGuild}, author : {"u1"}, channel : Channels]

Init ==
    /\ now = 0
    /\ owner_ids = {}
    /\ guild_owner_id = [g \in Guilds |-> "u2"]
    /\ member_roles = [m \in Members |-> <<>>]
    /\ level_mapping = [p \in Guilds \X Roles |->
                          IF p = <<"g1", "r1">> THEN MOD
                          ELSE IF p = <<"g1", "r2">> THEN VIP ELSE None]
    /\ lru = [k \in Keys |-> NoEntry]
    /\ key_guild \in BOOLEAN
    /\ ret = NoCall
    /\ mark = NoMark

Next ==
    \/ Return
    \/ \E ids \in SUBSET {"u1"} : update_app_info(ids)
    \/ \E u \in Users : SetGuildOwner("g1", u)
    \/ \E roles \in RoleLists(EvalRoles) : SetRoles(Member("u1", "g1"), roles)
    \/ \E ctx \in Contexts, level \in EvalLevels, db \in Rows(EvalLevels, EvalRoles) :
           Evaluate(ctx, level, db)

Spec == Init /\ [][Next]_vars

----------------------------------------------------------------------------
\* Properties of acl2_function, checked under Spec.

\* A call of acl2_function has just returned.
evaluated == ret.op = "acl2_function"
\* ... in a guild.
guild_evaluated == evaluated /\ in_guild(ret.ctx)
\* ... outside any guild.
dm_evaluated == evaluated /\ ~in_guild(ret.ctx)

\* The author's roles during the call.
ret_roles == member_roles[author(ret.ctx)]
\* The positions of the author's roles that have a RoleOverwrite.
ret_overwritten == {i \in 1..Len(ret_roles) : ret.db.ro[ret_roles[i]] # "none"}
\* The first of them.
ret_first == CHOOSE i \in ret_overwritten : \A j \in ret_overwritten : i <= j
\* The level the call compares against.
ret_effective == IF ret.db.default # None THEN ret.db.default ELSE ret.level

\* The author is in the bot-owner id set.
ret_is_bot_owner == ret.ctx.author \in owner_ids

\* A level computed during the call gives BOT_OWNER to bot owners and only
\* to them.
C_FreshOwner ==
    (guild_evaluated /\ ~ret.hit) => (ret.member_level = BOT_OWNER <=> ret_is_bot_owner)

\* C1 as stated: every actor whose id is in the bot-owner id set is Allowed
\* in a guild context, after any earlier evaluations and configuration changes.
C1_Stated ==
    (guild_evaluated /\ ret_is_bot_owner) => ret.result.kind = "Allowed"

\* C1: every actor the resolver maps to BOT_OWNER is Allowed in a guild
\* context whatever the default level, declared level and overwrites are, and
\* an actor in the bot-owner id set is mapped to BOT_OWNER whenever the level
\* is computed during the call instead of served from the cache.
C1_BotOwnerAllowed ==
    /\ (guild_evaluated /\ ret.member_level = BOT_OWNER) => ret.result.kind = "Allowed"
    /\ (guild_evaluated /\ ret_is_bot_owner /\ ~ret.hit) => ret.member_level = BOT_OWNER

C1_Witness ==
    /\ guild_evaluated /\ ret_is_bot_owner /\ ~ret.hit
    /\ ret.db.uo = "deny" /\ ret.db.co = "deny"
    /\ ret_overwritten # {} /\ \A i \in ret_overwritten : ret.db.ro[ret_roles[i]] = "deny"
    /\ ret.db.default = BOT_OWNER
    /\ ret.result.kind = "Allowed"

\* C2 as stated: an actor who is not a bot owner and has a user overwrite
\* with allow=false gets exactly NegativeUserOverwrite.
C2_Stated ==
    (guild_evaluated /\ ~ret_is_bot_owner /\ ret.db.uo = "deny")
        => ret.result.kind = "NegativeUserOverwrite"

\* C2: an actor the resolver does not map to BOT_OWNER and who has a user
\* overwrite with allow=false gets exactly NegativeUserOverwrite, whatever the
\* level and the channel and role overwrites; an actor outside the bot-owner
\* id set is not mapped to BOT_OWNER when the level is computed during the call.
C2_NegativeUserOverwrite ==
    /\ (guild_evaluated /\ ret.member_level # BOT_OWNER /\ ret.db.uo = "deny")
           => /\ ret.result.kind = "NegativeUserOverwrite"
              /\ ret.result.channel = NoChannel /\ ret.result.role = NoRole
              /\ ret.result.required = None /\ ret.result.actual = None
    /\ (guild_evaluated /\ ~ret_is_bot_owner /\ ~ret.hit) => ret.member_level # BOT_OWNER

C2_Witness ==
    /\ guild_evaluated /\ ret.db.uo = "deny"
    /\ ret.member_level = GUILD_OWNER /\ ret_effective = EVERYONE
    /\ ret.db.co = "allow"
    /\ ret_overwritten # {} /\ \A i \in ret_overwritten : ret.db.ro[ret_roles[i]] = "allow"
    /\ ret.result.kind = "NegativeUserOverwrite"

\* The first stage of the call at which an entry exists.
ret_stage ==
    IF ret.db.uo # "none" THEN "user"
    ELSE IF ret.db.co # "none" THEN "channel"
    ELSE IF ret_overwritten # {} THEN "role"
    ELSE "level"

\* The decision belongs to the first stage with an entry.
ret_decided_by_stage ==
    /\ ret_stage = "user" =>
           ret.result.kind = IF ret.db.uo = "allow" THEN "Allowed" ELSE "NegativeUserOverwrite"
    /\ ret_stage = "channel" =>
           ret.result.kind = IF ret.db.co = "allow" THEN "Allowed" ELSE "NegativeChannelOverwrite"
    /\ ret_stage = "role" =>
           /\ ret.result.kind \in {"Allowed", "NegativeRoleOverwrite"}
           /\ (\A i \in ret_overwritten : ret.db.ro[ret_roles[i]] = "allow")
                  => ret.result.kind = "Allowed"
           /\ (\A i \in ret_overwritten : ret.db.ro[ret_roles[i]] = "deny")
                  => ret.result.kind = "NegativeRoleOverwrite"
    /\ ret_stage = "level" =>
           ret.result.kind = IF ret.member_level >= ret_effective
                             THEN "Allowed" ELSE "InsufficientACLevel"

\* C3 as stated: for an actor who is not a bot owner the decision is fixed by
\* the first stage, in the order user, channel, role, level, with an entry.
C3_Stated ==
    (guild_evaluated /\ ~ret_is_bot_owner) => ret_decided_by_stage

\* C3: for an actor the resolver does not map to BOT_OWNER the decision is
\* fixed by the first stage, in the order user overwrite, channel overwrite,
\* role overwrite, level comparison, at which an entry exists; no later entry
\* or level relation changes it.
C3_Precedence ==
    (guild_evaluated /\ ret.member_level # BOT_OWNER) => ret_decided_by_stage

C3_Witness ==
    /\ guild_evaluated /\ ret.member_level # BOT_OWNER
    /\ ret.db.uo = "none" /\ ret.db.co = "allow"
    /\ ret_overwritten # {} /\ \A i \in ret_overwritten : ret.db.ro[ret_roles[i]] = "deny"
    /\ ret.member_level < ret_effective
    /\ ret.result.kind = "Allowed"

\* C6: outside any guild the call returns Allowed for every actor, declared
\* level and table content, consults no table and leaves the resolver's
\* cache as it was.
C6_NoGuildAllowed ==
    [][(idle /\ ret'.op = "acl2_function" /\ ~in_guild(ret'.ctx))
          => /\ ret'.result.kind = "Allowed"
             /\ ret'.result.consulted = {}
             /\ ret'.member_level = None
             /\ lru' = lru]_vars

C6_Witness ==
    /\ dm_evaluated
    /\ ~ret_is_bot_owner /\ ret.level = BOT_OWNER /\ ret.db.default = BOT_OWNER
    /\ ret.db.uo = "deny" /\ ret.db.co = "deny"
    /\ lru[ring_key(Member(ret.ctx.author, "g1"))] = NoEntry
    /\ ret.result.kind = "Allowed"

\* C7: with no user, channel or role overwrite for the actor, a call in a
\* guild for an actor outside the bot-owner id set returns Allowed exactly when
\* member_level >= effective level, the ACDefault level when a row exists and
\* the declared level otherwise, and InsufficientACLevel(required = effective
\* level, actual = member_level) when it is lower.
C7_LevelComparison ==
    (guild_evaluated /\ ~ret_is_bot_owner /\ ret_stage = "level")
        => /\ ret.member_level >= ret_effective => ret.result.kind = "Allowed"
           /\ ret.member_level < ret_effective =>
                  /\ ret.result.kind = "InsufficientACLevel"
                  /\ ret.result.required = ret_effective
                  /\ ret.result.actual = ret.member_level
                  /\ ret.result.channel = NoChannel /\ ret.result.role = NoRole

C7_Witness ==
    /\ guild_evaluated /\ ~ret_is_bot_owner /\ ret_stage = "level"
    /\ ret.db.default = MOD /\ ret.level = BOT_OWNER
    /\ ret.member_level = MOD /\ ~ret.hit
    /\ ret.result.kind = "Allowed"

\* C10: at the role-overwrite stage the roles are scanned in list order and
\* the first role with a RoleOverwrite decides: allow gives Allowed, deny gives
\* NegativeRoleOverwrite carrying that role; the overwrites of later roles are
\* not consulted.
C10_RoleOverwriteOrder ==
    (guild_evaluated /\ ret.member_level # BOT_OWNER /\ ret_stage = "role")
        => /\ ret.db.ro[ret_roles[ret_first]] = "allow" => ret.result.kind = "Allowed"
           /\ ret.db.ro[ret_roles[ret_first]] = "deny" =>
                  /\ ret.result.kind = "NegativeRoleOverwrite"
                  /\ ret.result.role = ret_roles[ret_first]
           /\ \A i \in 1..Len(ret_roles) :
                  <<"RoleOverwrite", ret_roles[i]>> \in ret.result.consulted <=> i <= ret_first

C10_Witness ==
    /\ guild_evaluated /\ ret_stage = "role"
    /\ Len(ret_roles) = 2
    /\ ret.db.ro[ret_roles[1]] = "deny" /\ ret.db.ro[ret_roles[2]] = "allow"
    /\ ret.member_level = MOD /\ ret_effective = EVERYONE
    /\ ret.result.kind = "NegativeRoleOverwrite" /\ ret.result.role = ret_roles[1]

----------------------------------------------------------------------------
\* Properties of map_member_to_ACLevel.

\* A direct call of the resolver has just returned.
resolved == ret.op = "map_member_to_ACLevel"

\* The positions of the member's roles that have a mapping in its guild.
ret_mapped ==
    {i \in 1..Len(member_roles[ret.member]) :
        level_mapping[<<ret.member.guild, member_roles[ret.member][i]>>] # None}
\* The last of them.
ret_last == CHOOSE i \in ret_mapped : \A j \in ret_mapped : j <= i

ret_member_is_bot_owner == ret.member.id \in owner_ids
ret_member_is_guild_owner == ret.member.id = guild_owner_id[ret.member.guild]

\* C5: for a member who is neither bot owner nor guild owner, a level that is
\* computed (not served from the cache) is the level mapped to the last role
\* of the member's list that has a mapping, and EVERYONE when no held role has
\* one.  Checked under SpecResolve.
C5_ReverseScan ==
    (resolved /\ ~ret.hit /\ ~ret_member_is_bot_owner /\ ~ret_member_is_guild_owner)
        => ret.value = IF ret_mapped = {} THEN EVERYONE
                       ELSE level_mapping[<<ret.member.guild,
                                            member_roles[ret.member][ret_last]>>]

C5_Witness ==
    /\ resolved /\ ~ret.hit /\ ~ret_member_is_bot_owner /\ ~ret_member_is_guild_owner
    /\ member_roles[ret.member] = <<"r1", "r2", "r3">>
    /\ level_mapping[<<ret.member.guild, "r1">>] = MOD
    /\ level_mapping[<<ret.member.guild, "r2">>] = None
    /\ level_mapping[<<ret.member.guild, "r3">>] = VIP
    /\ ret.value = VIP

\* The sentinel levels are returned for the owners and only for them.
ret_sentinels_by_identity ==
    /\ ret.value = BOT_OWNER <=> ret_member_is_bot_owner
    /\ ret.value = GUILD_OWNER <=> (ret_member_is_guild_owner /\ ~ret_member_is_bot_owner)

\* C8 as stated: the resolver returns BOT_OWNER exactly for the ids of the
\* bot-owner id set and GUILD_OWNER exactly for the guild owner outside that
\* set.
C8_Stated == resolved => ret_sentinels_by_identity

\* C8: whenever the resolver computes the level (instead of serving a
\* memoized one) it returns BOT_OWNER exactly for the ids of the bot-owner id
\* set and GUILD_OWNER exactly for the guild owner outside that set, whatever
\* roles the member holds and whatever they are mapped to.  Checked under
\* SpecResolve.
C8_SentinelsByIdentity == (resolved /\ ~ret.hit) => ret_sentinels_by_identity

C8_Witness ==
    /\ resolved /\ ~ret.hit
    /\ ret_member_is_bot_owner /\ ret_member_is_guild_owner
    /\ ret_mapped # {}
    /\ ret.value = BOT_OWNER

\* C4 as stated: two calls for the same member less than the TTL apart return
\* the same level (here with a key that tells the guilds apart).  ret.mark is
\* the earlier call.
C4_Stated ==
    (resolved /\ key_guild /\ ret.mark.member = ret.member /\ ret.at - ret.mark.at < expire)
        => ret.value = ret.mark.value

\* C4: two calls for the same member return the same level when the second
\* is made less than the TTL after the computation of the value the first
\* returned, even if mappings, roles or the owner set changed in between and
\* whatever other calls happen in between.  Checked under SpecCache.
C4_SameWithinEntryLifetime ==
    (resolved /\ ret.mark.member = ret.member /\ ret.at < ret.mark.computed_at + expire)
        => ret.value = ret.mark.value

C4_Witness ==
    /\ resolved /\ ret.mark.member = ret.member
    /\ ret.at > ret.mark.at /\ ret.at < ret.mark.computed_at + expire
    /\ compute_member_level(ret.member) # ret.value
    /\ ret.value = ret.mark.value

\* C9 as stated: every level the resolver returns for a member was computed
\* for that member, user and guild, at most the TTL earlier.
C9_Stated ==
    resolved => /\ ret.source = ret.member
                /\ ret.at - ret.computed_at <= expire

----------------------------------------------------------------------------
\* SpecCache: the resolver over time for three members.

CacheMembers == {Member("u1", "g1"), Member("u1", "g2"), Member("u2", "g1")}

InitCache ==
    /\ now = 0
    /\ owner_ids = {}
    /\ guild_owner_id = [g \in Guilds |-> "u2"]
    /\ member_roles = [m \in Members |-> <<"r1">>]
    /\ level_mapping = [p \in Guilds \X Roles |-> None]
    /\ lru = [k \in Keys |-> NoEntry]
    /\ key_guild \in BOOLEAN
    /\ ret = NoCall
    /\ mark = NoMark

NextCache ==
    \/ Tick
    \/ Return
    \/ \E ids \in SUBSET {"u1"} : update_app_info(ids)
    \/ \E roles \in {<<>>, <<"r1">>} : SetRoles(Member("u1", "g1"), roles)
    \/ \E lv \in {None, MOD} : SetMapping("g1", "r1", lv)
    \/ \E m \in CacheMembers, remember \in BOOLEAN : Resolve(m, remember)

SpecCache == InitCache /\ [][NextCache]_vars

----------------------------------------------------------------------------
\* SpecResolve: the resolver for one member under every configuration.

InitResolve ==
    /\ now = 0
    /\ owner_ids = {}
    /\ guild_owner_id = [g \in Guilds |-> "u2"]
    /\ member_roles = [m \in Members |-> <<>>]
    /\ level_mapping = [p \in Guilds \X Roles |-> None]
    /\ lru = [k \in Keys |-> NoEntry]
    /\ key_guild \in BOOLEAN
    /\ ret = NoCall
    /\ mark = NoMark

NextResolve ==
    \/ Return
    \/ \E ids \in SUBSET Users : update_app_info(ids)
    \/ \E u \in Users : SetGuildOwner("g1", u)
    \/ \E roles \in RoleLists(Roles) : SetRoles(Member("u1", "g1"), roles)
    \/ \E r \in Roles, lv \in AssignableLevels \cup {None} : SetMapping("g1", r, lv)
    \/ Resolve(Member("u1", "g1"), FALSE)

SpecResolve == InitResolve /\ [][NextResolve]_vars

====
